---- MODULE Spec2Model ----
(***************************************************************************)
(* PathwayListFile (pathwaylistfile/pathwaylistfile.py): the parser of the *)
(* KEGG pathway.list file and its lazy accessors.                          *)
(*                                                                         *)
(* A text line is a sequence of one-character strings.  A dict is a        *)
(* function whose DOMAIN is its key set, a list is a sequence.             *)
(*                                                                         *)
(*   Spec      one action per public method call on one instance           *)
(*   SpecPass  generate_metabolic_pathway_data, one loop iteration a step  *)
(*   SpecLine  the line predicates and extractors on every short string,   *)
(*             and the pass over the file that holds that one line         *)
(***************************************************************************)
EXTENDS Integers, Sequences, FiniteSets, TLC

\* ------------------------------------------------------------------ bounds
MaxLines == 4     \* lines of a pathway file
MaxBuilds == 2    \* passes over the file on one instance
MaxLen == 4       \* length of a string handed to the line predicates

\* -------------------------------------------------------- character classes
\* [A-Z]
Upper ==
  {"A", "B", "C", "D", "E", "F", "G", "H", "I", "J", "K", "L", "M",
   "N", "O", "P", "Q", "R", "S", "T", "U", "V", "W", "X", "Y", "Z"}

\* [0-9]
Digit == {"0", "1", "2", "3", "4", "5", "6", "7", "8", "9"}

\* \s
Whitespace == {" ", "\t", "\n", "\r", "\f"}

Range(q) == {q[i] : i \in 1..Len(q)}

\* A local variable of the pass that has not been assigned yet.  No line
\* yields this name.
Unbound == <<"<unbound>">>

\* ------------------------------------------------------------- exceptions
NoError == [type |-> "none", arg |-> <<>>]
KeyError(k) == [type |-> "KeyError", arg |-> k]
UnboundLocalError(v) == [type |-> "UnboundLocalError", arg |-> <<v>>]
AttributeError == [type |-> "AttributeError", arg |-> <<>>]

Return(v) == [kind |-> "return", value |-> v, err |-> NoError]
Raise(e) == [kind |-> "raise", value |-> <<>>, err |-> e]
NoOutcome == [kind |-> "none", value |-> <<>>, err |-> NoError]

\* ------------------------------------------------------------------ dicts
EmptyDict == <<>>

\* d[k] = v
DictSet(d, k, v) == [x \in (DOMAIN d) \cup {k} |-> IF x = k THEN v ELSE d[x]]

\* ---------------------------------------------------------- line predicates
\* Variant of is_metabolic_super_class: the pattern without its ^ anchor.
is_metabolic_super_class_unanchored(string) ==
  \E i \in 1..(Len(string) - 1) : string[i] = "#" /\ string[i + 1] \in Upper

\* re '^#[A-Z]'
is_metabolic_super_class(string) ==
  /\ Len(string) >= 2
  /\ string[1] = "#"
  /\ string[2] \in Upper

\* re '^##[A-Z]'
is_metabolic_class(string) ==
  /\ Len(string) >= 3
  /\ string[1] = "#"
  /\ string[2] = "#"
  /\ string[3] \in Upper

\* Length of the leading run of digits: what the greedy [0-9]{1,} takes.  The
\* pattern goes on with \s, which no digit matches, so backtracking into the
\* run never yields a match.
RECURSIVE DigitRunFrom(_, _)
DigitRunFrom(string, i) ==
  IF i <= Len(string) /\ string[i] \in Digit
  THEN DigitRunFrom(string, i + 1)
  ELSE i - 1

DigitRun(string) == DigitRunFrom(string, 1)

\* re "^([0-9]{1,})\s.*"
is_metabolic_map_record(string) ==
  LET d == DigitRun(string) IN
  /\ d >= 1
  /\ Len(string) >= d + 1
  /\ string[d + 1] \in Whitespace

\* result.group(1) of "^([0-9]{1,})\s.*"; a failed search is None and
\* None.group raises AttributeError
metabolic_pathway_map_number(string) ==
  IF is_metabolic_map_record(string)
  THEN Return(SubSeq(string, 1, DigitRun(string)))
  ELSE Raise(AttributeError)

\* re.sub('^\ {1,}', '', result)
RECURSIVE strip_leading_blanks(_)
strip_leading_blanks(result) ==
  IF Len(result) >= 1 /\ result[1] = " "
  THEN strip_leading_blanks(Tail(result))
  ELSE result

\* group(1) of "^[0-9]{1,}\s(.*)", then the leading blanks removed
metabolic_pathway_map_name(string) ==
  IF is_metabolic_map_record(string)
  THEN Return(strip_leading_blanks(
         SubSeq(string, DigitRun(string) + 2, Len(string))))
  ELSE Raise(AttributeError)

\* line.rstrip('\r\n')
RECURSIVE rstrip(_)
rstrip(line) ==
  IF Len(line) >= 1 /\ line[Len(line)] \in {"\r", "\n"}
  THEN rstrip(SubSeq(line, 1, Len(line) - 1))
  ELSE line

\* line.replace('#','')
replace_hash(line) == SelectSeq(line, LAMBDA c : c # "#")

\* ------------------------------------------------------------------ inputs
Ln(s) == s \o <<"\n">>

\* The lines the files of Spec and SpecPass are made of.
Pool ==
  { Ln(<<"#", "A">>),
    Ln(<<"#", "B">>),
    Ln(<<"#", "#", "C">>),
    Ln(<<"1", " ", "x">>),
    Ln(<<"1", " ", "y">>),
    Ln(<<"2", "\t", "x">>) }

Files == UNION {[1..n -> Pool] : n \in 0..MaxLines}

\* The characters the strings of SpecLine are made of.
Alphabet == {"#", "A", "1", " ", "\t", "x"}

Strings == UNION {[1..n -> Alphabet] : n \in 0..MaxLen}

\* The map numbers looked up: one the pool holds, one it does not.
LookupKeys == {<<"1">>, <<"9">>}

\* ------------------------------------------------------------------- state
VARIABLES
  pathway_file,                      \* the lines of the file, line endings kept
  metabolic_pathways,                \* superclass -> class -> map number -> name
  maps_and_pathways,                 \* map number -> record
  metabolic_pathways_names,
  metabolic_pathways_map_numbers,
  metabolic_pathways_super_classes,
  metabolic_pathways_classes,
  current_super_class,               \* locals of the pass (SpecPass, SpecLine)
  current_class,
  pc,                                \* "idle", or "reading" inside the pass
  pos,                               \* lines the pass in progress has consumed
  err,                               \* what ended the most recent pass
  fired,                             \* the if-bodies the last line entered
  pre,                               \* the six attributes before the last line
  builds,                            \* passes started on this instance
  direct,                            \* a pass was started by a direct call
  call,                              \* the last public method called
  outcome,                           \* and how it ended
  string                             \* SpecLine: the argument of the line methods

self_vars ==
  <<metabolic_pathways, maps_and_pathways, metabolic_pathways_names,
    metabolic_pathways_map_numbers, metabolic_pathways_super_classes,
    metabolic_pathways_classes>>

pass_vars == <<current_super_class, current_class, pc, pos, fired, pre>>

line_vars == <<string>>

vars ==
  <<pathway_file, self_vars, pass_vars, err, builds, direct, call, outcome,
    line_vars>>

\* The instance attributes as one value.
Self ==
  [ metabolic_pathways |-> metabolic_pathways,
    maps_and_pathways |-> maps_and_pathways,
    metabolic_pathways_names |-> metabolic_pathways_names,
    metabolic_pathways_map_numbers |-> metabolic_pathways_map_numbers,
    metabolic_pathways_super_classes |-> metabolic_pathways_super_classes,
    metabolic_pathways_classes |-> metabolic_pathways_classes ]

\* The state of a pass: the attributes, the locals, the line in hand.
PassState(self, csc, cc) ==
  [ metabolic_pathways |-> self.metabolic_pathways,
    maps_and_pathways |-> self.maps_and_pathways,
    metabolic_pathways_names |-> self.metabolic_pathways_names,
    metabolic_pathways_map_numbers |-> self.metabolic_pathways_map_numbers,
    metabolic_pathways_super_classes |-> self.metabolic_pathways_super_classes,
    metabolic_pathways_classes |-> self.metabolic_pathways_classes,
    current_super_class |-> csc,
    current_class |-> cc,
    line |-> <<>>,
    err |-> NoError,
    fired |-> {} ]

\* --------------------------------------------------- the body of the loop
\* Variant of new_super_class_entry: the entry is created only if absent.
new_super_class_entry_if_absent(pathways, line) ==
  IF line \in DOMAIN pathways THEN pathways ELSE DictSet(pathways, line, EmptyDict)

\* self.metabolic_pathways[ line ] = {}
new_super_class_entry(pathways, line) == DictSet(pathways, line, EmptyDict)

\* if self.is_metabolic_super_class( line ): ...
SuperClassBranch(s) ==
  IF is_metabolic_super_class(s.line)
  THEN LET line == replace_hash(s.line) IN
       [s EXCEPT !.line = line,
                 !.metabolic_pathways = new_super_class_entry(@, line),
                 !.current_super_class = line,
                 !.fired = @ \cup {"superclass"}]
  ELSE s

\* self.metabolic_pathways[ current_super_class ][ line ] = {}
new_class_entry(s, line) ==
  IF s.current_super_class = Unbound
  THEN [s EXCEPT !.err = UnboundLocalError("current_super_class")]
  ELSE IF s.current_super_class \notin DOMAIN s.metabolic_pathways
  THEN [s EXCEPT !.err = KeyError(s.current_super_class)]
  ELSE [s EXCEPT !.metabolic_pathways[s.current_super_class] =
                    DictSet(@, line, EmptyDict),
                 !.current_class = line]

\* if self.is_metabolic_class( line ): ...
ClassBranch(s) ==
  IF s.err = NoError /\ is_metabolic_class(s.line)
  THEN LET line == replace_hash(s.line) IN
       new_class_entry([s EXCEPT !.line = line, !.fired = @ \cup {"class"}], line)
  ELSE s

\* Variant of index_entry: a map number already in the index keeps its record.
index_entry_if_absent(index, map_number, record) ==
  IF map_number \in DOMAIN index THEN index ELSE DictSet(index, map_number, record)

\* self.maps_and_pathways[ map_number ] = { ... }
index_entry(index, map_number, record) == DictSet(index, map_number, record)

\* The six writes of a map record.  The first one evaluates
\* self.metabolic_pathways[ current_super_class ][ current_class ] and raises
\* before anything is written.
record_map(s, map_number, map_name) ==
  LET sc == s.current_super_class
      c == s.current_class
  IN
  IF sc = Unbound
  THEN [s EXCEPT !.err = UnboundLocalError("current_super_class")]
  ELSE IF sc \notin DOMAIN s.metabolic_pathways
  THEN [s EXCEPT !.err = KeyError(sc)]
  ELSE IF c = Unbound
  THEN [s EXCEPT !.err = UnboundLocalError("current_class")]
  ELSE IF c \notin DOMAIN s.metabolic_pathways[sc]
  THEN [s EXCEPT !.err = KeyError(c)]
  ELSE [s EXCEPT
          !.metabolic_pathways[sc][c] = DictSet(@, map_number, map_name),
          !.maps_and_pathways =
             index_entry(@, map_number,
               [map_name |-> map_name, superclass |-> sc, class |-> c]),
          !.metabolic_pathways_names = Append(@, map_name),
          !.metabolic_pathways_map_numbers = Append(@, map_number),
          !.metabolic_pathways_super_classes = Append(@, sc),
          !.metabolic_pathways_classes = Append(@, c)]

\* if self.is_metabolic_map_record( line ): ...
MapRecordBranch(s) ==
  IF s.err = NoError /\ is_metabolic_map_record(s.line)
  THEN record_map([s EXCEPT !.fired = @ \cup {"map"}],
                  metabolic_pathway_map_number(s.line).value,
                  metabolic_pathway_map_name(s.line).value)
  ELSE s

\* One iteration of "for line in f": the three ifs in sequence, each on the
\* line as the one before left it.
ProcessLine(s, raw) ==
  MapRecordBranch(ClassBranch(SuperClassBranch(
    [s EXCEPT !.line = rstrip(raw), !.fired = {}])))

RECURSIVE ReadLines(_, _, _)
ReadLines(s, f, i) ==
  IF i > Len(f) \/ s.err # NoError
  THEN s
  ELSE ReadLines(ProcessLine(s, f[i]), f, i + 1)

\* The whole pass over file f on an instance with attributes self.
generate_metabolic_pathway_data(self, f) ==
  ReadLines(PassState(self, Unbound, Unbound), f, 1)

\* ------------------------------------------------------------ construction
\* __init__: every attribute empty; nothing is read yet.
Fresh ==
  /\ metabolic_pathways = EmptyDict
  /\ maps_and_pathways = EmptyDict
  /\ metabolic_pathways_names = <<>>
  /\ metabolic_pathways_map_numbers = <<>>
  /\ metabolic_pathways_super_classes = <<>>
  /\ metabolic_pathways_classes = <<>>
  /\ current_super_class = Unbound
  /\ current_class = Unbound
  /\ pc = "idle"
  /\ pos = 0
  /\ err = NoError
  /\ fired = {}
  /\ pre = Self
  /\ builds = 0
  /\ direct = FALSE
  /\ call = [op |-> "none", arg |-> <<>>]
  /\ outcome = NoOutcome

Init ==
  /\ pathway_file \in Files
  /\ string = <<>>
  /\ Fresh

\* ------------------------------------------------- Spec: the public methods
\* One pass more is within the bound on passes.
MayBuild == builds < MaxBuilds

\* What "if len( d ) == 0: self.generate_metabolic_pathway_data()" leaves: the
\* pass state after the pass if d is empty, the attributes as they are if not;
\* ran tells which.  A set, empty when the pass would exceed MaxBuilds.
Ensure(d) ==
  IF Cardinality(DOMAIN d) = 0
  THEN IF MayBuild
       THEN {[s |-> generate_metabolic_pathway_data(Self, pathway_file), ran |-> 1]}
       ELSE {}
  ELSE {[s |-> PassState(Self, Unbound, Unbound), ran |-> 0]}

\* The attributes, the counters and the call record after a method that went
\* through e and ended with result out.
Finish(e, op, arg, out) ==
  /\ metabolic_pathways' = e.s.metabolic_pathways
  /\ maps_and_pathways' = e.s.maps_and_pathways
  /\ metabolic_pathways_names' = e.s.metabolic_pathways_names
  /\ metabolic_pathways_map_numbers' = e.s.metabolic_pathways_map_numbers
  /\ metabolic_pathways_super_classes' = e.s.metabolic_pathways_super_classes
  /\ metabolic_pathways_classes' = e.s.metabolic_pathways_classes
  /\ builds' = builds + e.ran
  /\ err' = IF e.ran = 1 THEN e.s.err ELSE err
  /\ call' = [op |-> op, arg |-> arg]
  /\ outcome' = IF e.s.err # NoError THEN Raise(e.s.err) ELSE out
  /\ UNCHANGED <<pathway_file, pass_vars, line_vars>>

\* A direct call of the pass, as the tests make it.
Generate ==
  /\ MayBuild
  /\ \E e \in {[s |-> generate_metabolic_pathway_data(Self, pathway_file), ran |-> 1]} :
       /\ Finish(e, "generate_metabolic_pathway_data", <<>>, Return(<<>>))
       /\ direct' = TRUE

get_maps_and_pathways ==
  \E e \in Ensure(maps_and_pathways) :
     /\ Finish(e, "get_maps_and_pathways", <<>>, Return(e.s.maps_and_pathways))
     /\ UNCHANGED direct

pathways_and_maps ==
  \E e \in Ensure(metabolic_pathways) :
     /\ Finish(e, "pathways_and_maps", <<>>, Return(e.s.metabolic_pathways))
     /\ UNCHANGED direct

\* Variant of subscript: a missing key yields an empty record, as dict.get
\* with a default would.
subscript_or_default(data, key) ==
  IF key \in DOMAIN data THEN Return(data[key]) ELSE Return(EmptyDict)

\* data[map_number]
subscript(data, key) ==
  IF key \in DOMAIN data THEN Return(data[key]) ELSE Raise(KeyError(key))

map_pathway_data_by_map_number ==
  \E map_number \in LookupKeys :
    \E e \in Ensure(maps_and_pathways) :
       /\ Finish(e, "map_pathway_data_by_map_number", map_number,
                 subscript(e.s.maps_and_pathways, map_number))
       /\ UNCHANGED direct

\* Variant of list_of_set: the list is returned as collected.
list_as_collected(data) == {data}

\* list(set(data)): each value once, in an order the set decides.
list_of_set(data) ==
  {q \in [1..Cardinality(Range(data)) -> Range(data)] : Range(q) = Range(data)}

pathways_names ==
  \E e \in Ensure(maps_and_pathways) :
     \E data \in list_of_set(e.s.metabolic_pathways_names) :
       /\ Finish(e, "pathways_names", <<>>, Return(data))
       /\ UNCHANGED direct

pathways_super_classes ==
  \E e \in Ensure(maps_and_pathways) :
     \E data \in list_of_set(e.s.metabolic_pathways_super_classes) :
       /\ Finish(e, "pathways_super_classes", <<>>, Return(data))
       /\ UNCHANGED direct

pathways_classes ==
  \E e \in Ensure(maps_and_pathways) :
     \E data \in list_of_set(e.s.metabolic_pathways_classes) :
       /\ Finish(e, "pathways_classes", <<>>, Return(data))
       /\ UNCHANGED direct

pathways_map_numbers ==
  \E e \in Ensure(maps_and_pathways) :
     \E data \in list_of_set(e.s.metabolic_pathways_map_numbers) :
       /\ Finish(e, "pathways_map_numbers", <<>>, Return(data))
       /\ UNCHANGED direct

all_pathways ==
  \E e \in Ensure(maps_and_pathways) :
     /\ Finish(e, "all_pathways", <<>>, Return(e.s.metabolic_pathways))
     /\ UNCHANGED direct

Next ==
  \/ Generate
  \/ get_maps_and_pathways
  \/ pathways_and_maps
  \/ map_pathway_data_by_map_number
  \/ pathways_names
  \/ pathways_super_classes
  \/ pathways_classes
  \/ pathways_map_numbers
  \/ all_pathways

Spec == Init /\ [][Next]_vars

\* ------------------------------------- SpecPass: the pass, a line at a step
\* with open(self.pathway_file) as f: the locals are not bound yet.
OpenFile ==
  /\ pc = "idle"
  /\ MayBuild
  /\ pc' = "reading"
  /\ pos' = 0
  /\ current_super_class' = Unbound
  /\ current_class' = Unbound
  /\ err' = NoError
  /\ fired' = {}
  /\ pre' = Self
  /\ builds' = builds + 1
  /\ direct' = TRUE
  /\ UNCHANGED <<pathway_file, self_vars, call, outcome, line_vars>>

\* for line in f: one iteration
ReadLine ==
  /\ pc = "reading"
  /\ err = NoError
  /\ pos < Len(pathway_file)
  /\ \E s \in {ProcessLine(PassState(Self, current_super_class, current_class),
                           pathway_file[pos + 1])} :
       /\ metabolic_pathways' = s.metabolic_pathways
       /\ maps_and_pathways' = s.maps_and_pathways
       /\ metabolic_pathways_names' = s.metabolic_pathways_names
       /\ metabolic_pathways_map_numbers' = s.metabolic_pathways_map_numbers
       /\ metabolic_pathways_super_classes' = s.metabolic_pathways_super_classes
       /\ metabolic_pathways_classes' = s.metabolic_pathways_classes
       /\ current_super_class' = s.current_super_class
       /\ current_class' = s.current_class
       /\ err' = s.err
       /\ fired' = s.fired
  /\ pre' = Self
  /\ pos' = pos + 1
  /\ UNCHANGED <<pathway_file, pc, builds, direct, call, outcome, line_vars>>

\* The loop is over, at the end of the file or by an exception; the with
\* block closes the file and the call returns or raises.
EndPass ==
  /\ pc = "reading"
  /\ err # NoError \/ pos = Len(pathway_file)
  /\ pc' = "idle"
  /\ UNCHANGED <<pathway_file, self_vars, current_super_class, current_class,
                 pos, err, fired, pre, builds, direct, call, outcome, line_vars>>

NextPass == OpenFile \/ ReadLine \/ EndPass

SpecPass == Init /\ [][NextPass]_vars

\* ------------------------ SpecLine: the line methods on one string
\* The instance is built on the file that holds string as its only line.
InitLine ==
  /\ string \in Strings
  /\ pathway_file = <<Ln(string)>>
  /\ Fresh

LineCall(op, out) ==
  /\ call' = [op |-> op, arg |-> string]
  /\ outcome' = out
  /\ UNCHANGED <<pathway_file, self_vars, pass_vars, err, builds, direct, line_vars>>

IsMetabolicSuperClass ==
  LineCall("is_metabolic_super_class", Return(is_metabolic_super_class(string)))

IsMetabolicClass ==
  LineCall("is_metabolic_class", Return(is_metabolic_class(string)))

IsMetabolicMapRecord ==
  LineCall("is_metabolic_map_record", Return(is_metabolic_map_record(string)))

MetabolicPathwayMapNumber ==
  LineCall("metabolic_pathway_map_number", metabolic_pathway_map_number(string))

MetabolicPathwayMapName ==
  LineCall("metabolic_pathway_map_name", metabolic_pathway_map_name(string))

NextLine ==
  \/ IsMetabolicSuperClass
  \/ IsMetabolicClass
  \/ IsMetabolicMapRecord
  \/ MetabolicPathwayMapNumber
  \/ MetabolicPathwayMapName
  \/ OpenFile
  \/ ReadLine
  \/ EndPass

SpecLine == InitLine /\ [][NextLine]_vars

\* =================================================================== claims
\* What the file holds, read off the file itself.
FileLine(i) == rstrip(pathway_file[i])

SuperLines == {i \in 1..Len(pathway_file) : is_metabolic_super_class(FileLine(i))}

ClassLines == {i \in 1..Len(pathway_file) : is_metabolic_class(FileLine(i))}

MapLines == {i \in 1..Len(pathway_file) : is_metabolic_map_record(FileLine(i))}

NumberAt(i) == metabolic_pathway_map_number(FileLine(i)).value

NameAt(i) == metabolic_pathway_map_name(FileLine(i)).value

LastOf(S) == CHOOSE i \in S : \A j \in S : j <= i

\* The name on the most recent superclass (class) line above line i.
SuperAbove(i) == replace_hash(FileLine(LastOf({j \in SuperLines : j < i})))

ClassAbove(i) == replace_hash(FileLine(LastOf({j \in ClassLines : j < i})))

FileNumbers == {NumberAt(i) : i \in MapLines}

\* The map numbers filed anywhere in the hierarchy.
HierarchyNumbers ==
  UNION {UNION {DOMAIN metabolic_pathways[s][c] : c \in DOMAIN metabolic_pathways[s]}
         : s \in DOMAIN metabolic_pathways}

\* The most recent pass ran to the end of the file.
PassCompleted == builds >= 1 /\ pc = "idle" /\ err = NoError

NoDuplicates(q) == \A i, j \in 1..Len(q) : i # j => q[i] # q[j]

\* C1 (as claimed): after a completed pass every map number of the flat index
\* is in the hierarchy under the superclass and class its record names, with
\* the record's map name.
C1_RoundTrip ==
  PassCompleted =>
    \A n \in DOMAIN maps_and_pathways :
      LET r == maps_and_pathways[n] IN
      /\ r.superclass \in DOMAIN metabolic_pathways
      /\ r.class \in DOMAIN metabolic_pathways[r.superclass]
      /\ n \in DOMAIN metabolic_pathways[r.superclass][r.class]
      /\ metabolic_pathways[r.superclass][r.class][n] = r.map_name

Accessors ==
  {"get_maps_and_pathways", "pathways_and_maps", "all_pathways",
   "map_pathway_data_by_map_number", "pathways_names",
   "pathways_super_classes", "pathways_classes", "pathways_map_numbers"}

ListAccessors ==
  {"pathways_names", "pathways_super_classes", "pathways_classes",
   "pathways_map_numbers"}

\* Two outcomes of accessor op are the same: the same failure, or the same
\* value, a list taken as the set of its members.
SameOutcome(op, a, b) ==
  /\ a.kind = b.kind
  /\ a.err = b.err
  /\ a.kind = "return" =>
       IF op \in ListAccessors
       THEN Range(a.value) = Range(b.value)
       ELSE a.value = b.value

\* C2 (as claimed): an accessor called twice in a row ends the same way both
\* times, and the second call leaves the six attributes as they were.
C2_Idempotent ==
  [][(call.op \in Accessors /\ call' = call) =>
       (SameOutcome(call.op, outcome, outcome') /\ Self' = Self)]_vars

\* C3 (as claimed): as long as the pass is only started by accessors, it is
\* run at most once on an instance.
C3_BuildOnce == (direct = FALSE) => builds <= 1

\* The string without its leading whitespace.
RECURSIVE StripLeadingWhitespace(_)
StripLeadingWhitespace(q) ==
  IF Len(q) >= 1 /\ q[1] \in Whitespace
  THEN StripLeadingWhitespace(Tail(q))
  ELSE q

\* What follows the digits of a map-record line, less its leading whitespace.
NameOf(line) ==
  StripLeadingWhitespace(SubSeq(line, DigitRun(line) + 1, Len(line)))

\* C4 (as claimed): on a map-record line with a name after the whitespace,
\* metabolic_pathway_map_name returns that name: what follows the digits, with
\* all of its leading whitespace removed.
C4_MapName ==
  (/\ call.op = "metabolic_pathway_map_name"
   /\ is_metabolic_map_record(call.arg)
   /\ NameOf(call.arg) # <<>>) =>
    outcome = Return(NameOf(call.arg))

\* C5 (as claimed): a superclass line whose name is already in the hierarchy
\* leaves what is filed under that name as it was, and so does a class line
\* whose name is already under the current superclass.
C5_CreateIfAbsent ==
  (pos >= 1) =>
    LET line == FileLine(pos)
        name == replace_hash(line)
        before == pre.metabolic_pathways
    IN
    /\ (is_metabolic_super_class(line) /\ name \in DOMAIN before) =>
          metabolic_pathways[name] = before[name]
    /\ (/\ is_metabolic_class(line)
        /\ err = NoError
        /\ name \in DOMAIN before[current_super_class]) =>
          metabolic_pathways[current_super_class][name] =
            before[current_super_class][name]

\* The record of the last map-record line that carries number n.
LastRecord(n) ==
  LET i == LastOf({j \in MapLines : NumberAt(j) = n}) IN
  [map_name |-> NameAt(i), superclass |-> SuperAbove(i), class |-> ClassAbove(i)]

\* C6: after a completed pass the flat index has one entry per map number of
\* the file, and the entry of n holds the name extracted from the last record
\* line with number n, and the names on the most recent superclass line and
\* class line above that line.
C6_FlatIndex ==
  PassCompleted =>
    /\ DOMAIN maps_and_pathways = FileNumbers
    /\ \A n \in FileNumbers : maps_and_pathways[n] = LastRecord(n)

\* C6's case: a completed pass over a file in which a map number comes twice,
\* with two names, and the index holds the later one.
C6_Witness ==
  /\ PassCompleted
  /\ \E i, j \in MapLines :
       /\ i < j
       /\ NumberAt(i) = NumberAt(j)
       /\ NameAt(i) # NameAt(j)
       /\ maps_and_pathways[NumberAt(j)].map_name = NameAt(j)

\* The list attribute behind a list accessor.
Collected(op) ==
  CASE op = "pathways_names" -> metabolic_pathways_names
    [] op = "pathways_super_classes" -> metabolic_pathways_super_classes
    [] op = "pathways_classes" -> metabolic_pathways_classes
    [] op = "pathways_map_numbers" -> metabolic_pathways_map_numbers

\* The values the map records of the file give a list accessor.
InFile(op) ==
  CASE op = "pathways_names" -> {NameAt(i) : i \in MapLines}
    [] op = "pathways_super_classes" -> {SuperAbove(i) : i \in MapLines}
    [] op = "pathways_classes" -> {ClassAbove(i) : i \in MapLines}
    [] op = "pathways_map_numbers" -> FileNumbers

\* C7: a list accessor returns no value twice; it returns the values collected
\* in its list attribute, each once, however often the pass has run; after a
\* completed pass these are the values the map records of the file give.
C7_Deduplicated ==
  (call.op \in ListAccessors /\ outcome.kind = "return") =>
    /\ NoDuplicates(outcome.value)
    /\ Range(outcome.value) = Range(Collected(call.op))
    /\ PassCompleted => Range(outcome.value) = InFile(call.op)

\* C7's case: the pass ran twice, the names were collected more than once,
\* and pathways_names returns two different names.
C7_Witness ==
  /\ call.op = "pathways_names"
  /\ outcome.kind = "return"
  /\ builds >= 2
  /\ Len(outcome.value) = 2
  /\ Len(metabolic_pathways_names) > 2

\* C8 (as claimed): the lookup of a number that no map-record line carries
\* ends in Key-Not-Found and files nothing under the number; the lookup of a
\* number that a map-record line carries returns its flat-index record.
C8_LookupAsClaimed ==
  (call.op = "map_pathway_data_by_map_number") =>
    LET n == call.arg IN
    /\ n \notin FileNumbers =>
         /\ outcome = Raise(KeyError(n))
         /\ n \notin DOMAIN maps_and_pathways
         /\ n \notin HierarchyNumbers
    /\ n \in FileNumbers =>
         /\ outcome.kind = "return"
         /\ outcome.value = maps_and_pathways[n]

\* C8 (amended): the lookup of a number that no map-record line carries always
\* ends in an error, Key-Not-Found for the number or the error of the failed
\* pass (Key-Not-Found if the last pass completed), and files nothing under
\* the number; a lookup returns only for a number in the flat index, and then
\* its flat-index record; it ends in Key-Not-Found for n only if n is not in
\* the flat index.
C8_Lookup ==
  (call.op = "map_pathway_data_by_map_number") =>
    LET n == call.arg IN
    /\ outcome.kind \in {"return", "raise"}
    /\ n \notin FileNumbers =>
         /\ outcome.kind = "raise"
         /\ outcome.err = KeyError(n) \/ (err # NoError /\ outcome.err = err)
         /\ err = NoError => outcome.err = KeyError(n)
         /\ n \notin DOMAIN maps_and_pathways
         /\ n \notin HierarchyNumbers
    /\ outcome.kind = "return" =>
         /\ n \in DOMAIN maps_and_pathways
         /\ outcome.value = maps_and_pathways[n]
    /\ (outcome.kind = "raise" /\ outcome.err = KeyError(n)) =>
         n \notin DOMAIN maps_and_pathways
    /\ (n \in FileNumbers /\ err = NoError) => outcome.kind = "return"

\* C8's case: a lookup on a populated index of a number the file does not
\* hold ended in Key-Not-Found.
C8_Witness ==
  /\ call.op = "map_pathway_data_by_map_number"
  /\ call.arg \notin FileNumbers
  /\ DOMAIN maps_and_pathways # {}
  /\ outcome = Raise(KeyError(call.arg))

Count(b) == IF b THEN 1 ELSE 0

\* C9: at most one of the three line predicates holds of a line, and the pass
\* enters at most one of its three if-bodies for a line.
C9_Exclusive ==
  /\ Count(is_metabolic_super_class(string)) + Count(is_metabolic_class(string))
       + Count(is_metabolic_map_record(string)) <= 1
  /\ Cardinality(fired) <= 1

\* C9's case: the pass has read a line made of ## and an uppercase letter
\* and entered the class body alone.
C9_Witness ==
  /\ pos = 1
  /\ is_metabolic_class(string)
  /\ ~is_metabolic_super_class(string)
  /\ fired = {"class"}

\* Line i is a map record with no class line between the most recent
\* superclass line above it and itself (or no class line above it at all).
StaleAt(i) ==
  /\ i \in MapLines
  /\ ~\E j \in ClassLines :
        /\ j < i
        /\ ~\E k \in SuperLines : j < k /\ k < i

\* C10: a map record read with no class line since the most recent superclass
\* line ends the pass with an error and changes none of the six attributes.
C10_NoStaleContext ==
  (pos >= 1 /\ StaleAt(pos)) => (err # NoError /\ Self = pre)

\* C10's case: a map record read under a superclass that has no class yet,
\* while the class of an earlier superclass is still the current class.
C10_Witness ==
  /\ pos >= 1
  /\ StaleAt(pos)
  /\ current_class # Unbound
  /\ current_super_class # Unbound
  /\ err = KeyError(current_class)
  /\ Self = pre

====
